---- MODULE Spec2Model ----
(***************************************************************************)
(* Match / round state machine of the two socket.io game servers of        *)
(* hnr26 (src/unnamed/part_000):                                           *)
(*   - the reactive server   (lines 1-336):  attacker / defender moves     *)
(*   - the guessing server   (lines 338-552): combination / guess          *)
(* One match code is modelled.  Every socket.io handler and every timer    *)
(* callback is one action; the helper functions the handlers call          *)
(* (startRoundCountdown, startRound, endRound, endMatch) are operators on  *)
(* a "world" record [match, timers, emitted] that the action threads       *)
(* through, so an action is the whole handler.                             *)
(*                                                                         *)
(* Timers are closures: a bag of live timers, each carrying the locals     *)
(* its callback closes over.  A timer is "tracked" when the handle kept    *)
(* in match.roundTimer / match.moveTimeout refers to it; clearInterval /   *)
(* clearTimeout on the handle removes the tracked timer only.  Timer       *)
(* callbacks close over the match OBJECT, which outlives its removal from  *)
(* the registry, so the match record is kept after a delete.               *)
(*                                                                         *)
(* Time is discrete, in units of one second (every delay of the servers    *)
(* is a whole number of seconds): a timer carries the seconds left until  *)
(* it is due, Tick lets one second pass once every due timer has fired,   *)
(* timers due at the same instant fire in any order, and inbound events   *)
(* arrive at any instant in any order.                                     *)
(***************************************************************************)
EXTENDS Integers, Sequences, FiniteSets, Bags, TLC

VARIABLES
    variant,      \* which server is running: "reactive" or "guessing"
    serverUp,     \* FALSE once a handler has thrown (uncaught exception)
    matches,      \* the registry: set of codes that map to the match
    match,        \* the match object (fields as in createMatch)
    other,        \* the match object registered under OtherCode
    sockets,      \* per socket: connected, socket.matchCode, socket.playerRole
    timers,       \* bag of live timers (setInterval / setTimeout closures)
    emitted,      \* notifications emitted by the last handler, in order
    moveStat,     \* history: outcome notifications of the last accepted move
    ended,        \* history: matchEnd was emitted since creation / last reset
    proposers,    \* history: sockets whose proposeRematch was accepted so far
    limits,       \* the exploration limits of the behaviour (never change)
    client        \* the state of one browser page of the reactive game (game.js)

vars == <<variant, serverUp, matches, match, other, sockets, timers, emitted,
          moveStat, ended, proposers, limits, client>>

----------------------------------------------------------------------------
(* Bounds of the model *)

MaxScore  == 1      \* scores are explored up to this value
MaxRound  == 5      \* currentRound is explored up to this value
MaxTimers == 3      \* live timers of one kind explored up to this number
\* the same limits for the behaviours of SpecQuiet, per kind of timer
QuietRound      == 6
QuietCountdowns == 4
QuietIntervals  == 2
QuietNextRounds == 4
QuietEndMatches == 3
QuietRematches  == 2
MaxGTimers == 2     \* live timers of the guessing server explored up to this number
MaxGuessScore == 5  \* scores of the guessing server explored up to this value
MaxSamples  == 1    \* calibration samples kept per calibration
MaxTimeouts == 1    \* pending setTimeout closures of each kind on the page

Sockets    == {"guest", "host"}
JoinCodes  == {"ABC123", "ZZZZZZ"}     \* codes a joinMatch request carries
\* arrays a submitCombination / submitGuess request carries
Combinations == {<<"up", "up", "up", "up">>, <<"up">>}
Guesses      == {<<"up", "up", "up", "up">>, <<"down", "up">>, <<>>}
\* a submitCombination of the wrong length is explored in these states
BadLengthStates == {"waiting", "inputting", "countdown"}
\* joinMatch requests are explored while the match is in one of these states
JoinStates == {"null", "waiting", "countdown"}
Directions == {"up", "down"}

----------------------------------------------------------------------------
(* Program constants *)

Code             == "ABC123"
OtherCode        == "XYZ789"  \* a second value generateMatchCode can return
ReactiveRounds   == 4
GuessingRounds   == 3
CombinationLength == 4
GuessDuration    == 8
CountdownSeconds == 3
RoundDuration    == 30
IntervalDelay    == 1      \* setInterval(..., 1000)
MoveWindow       == 2      \* setTimeout(..., 2000) of attackMove
EndMatchDelay    == 2      \* setTimeout(..., 2000) of endRound
NextRoundDelay   == 3      \* setTimeout(..., 3000) of endRound
RematchDelay     == 1      \* setTimeout(..., 1000) of proposeRematch

NoMove == [direction |-> "null", responded |-> FALSE]

NullMatch ==
    [code |-> "null", player1 |-> "null", player2 |-> "null",
     currentRound |-> 0, totalRounds |-> 0,
     scores |-> [player1 |-> 0, player2 |-> 0],
     combination |-> <<>>,
     state |-> "null",
     currentAttacker |-> "null", currentDefender |-> "null",
     roundTimer |-> "null", currentMove |-> NoMove, moveTimeout |-> "null",
     rematchProposals |-> [player1 |-> FALSE, player2 |-> FALSE]]

NullSocket == [connected |-> TRUE, matchCode |-> "null", playerRole |-> "null"]

----------------------------------------------------------------------------
(* Timers *)

\* kind: which callback; n: its counter local (count / timeLeft);
\* dir: the move it closes over; tracked: a handle of the match refers to it;
\* due: seconds until it fires
Timer(k, n, d, t, due) ==
    [kind |-> k, n |-> n, dir |-> d, tracked |-> t, due |-> due]

Due(T, k) == {tm \in BagToSet(T) : tm.kind = k /\ tm.due = 0}

AddTimer(T, tm) == T (+) SetToBag({tm})
DelTimer(T, tm) == T (-) SetToBag({tm})

TimersOf(T, k) == {tm \in BagToSet(T) : tm.kind = k}

RECURSIVE SumCopies(_, _)
SumCopies(T, S) ==
    IF S = {} THEN 0
    ELSE LET tm == CHOOSE x \in S : TRUE
         IN  CopiesIn(tm, T) + SumCopies(T, S \ {tm})

KindCount(T, k) == SumCopies(T, TimersOf(T, k))

Kinds  == {"countdown", "round", "move", "nextRound", "endMatch", "rematch"}
GKinds == {"gCountdown", "gNextRound", "gRematch"}

\* the model explores at most MaxTimers live timers of each kind of the
\* reactive server and at most MaxGTimers live timers of the guessing server
Bounded(T) ==
    /\ \A k \in Kinds : KindCount(T, k) <= limits.timers[k]
    /\ SumCopies(T, {tm \in BagToSet(T) : tm.kind \in GKinds}) <= MaxGTimers

\* clearInterval(handle) / clearTimeout(handle): the timer the handle refers
\* to is removed if it is still live; a stale handle clears nothing.
ClearTracked(T, k) ==
    LET S == {tm \in TimersOf(T, k) : tm.tracked}
    IN  IF S = {} THEN T ELSE DelTimer(T, CHOOSE tm \in S : TRUE)

\* assigning a new handle over the old one: the old timer keeps running but
\* nothing refers to it any more.
Untrack(T, k) ==
    LET S == {tm \in TimersOf(T, k) : tm.tracked}
    IN  IF S = {} THEN T
        ELSE LET tm == CHOOSE x \in S : TRUE
             IN  AddTimer(DelTimer(T, tm), [tm EXCEPT !.tracked = FALSE])

----------------------------------------------------------------------------
(* Notifications *)

Note(to, ev, arg) == [to |-> to, event |-> ev, arg |-> arg]

Events(E) == {E[i].event : i \in 1..Len(E)}

World(m, T, E) == [match |-> m, timers |-> T, emitted |-> E]

----------------------------------------------------------------------------
(* Reactive server: helper functions *)

\* endMatch's winner computation
\* a winner rule that gives a drawn match to player1
WinnerTieToPlayer1(scores) ==
    IF scores.player1 >= scores.player2 THEN "player1" ELSE "player2"

Winner(scores) ==
    IF scores.player1 > scores.player2 THEN "player1"
    ELSE IF scores.player2 > scores.player1 THEN "player2"
    ELSE "tie"

\* a role rule that never swaps the roles
AlwaysOddRound(m) == TRUE

\* startRoundCountdown, line 87
IsOddRound(m) == m.currentRound % 2 = 1

StartRoundCountdown(W) ==
    IF Code \notin matches THEN W
    ELSE
    LET m0 == W.match
        isOddRound == IsOddRound(m0)
        m1 == [m0 EXCEPT
                 !.currentAttacker = IF isOddRound THEN m0.player1 ELSE m0.player2,
                 !.currentDefender = IF isOddRound THEN m0.player2 ELSE m0.player1,
                 !.state = "countdown"]
    IN  World(m1,
              AddTimer(W.timers, Timer("countdown", CountdownSeconds, "-", FALSE, IntervalDelay)),
              W.emitted \o
                <<Note(m1.currentAttacker, "roundStart", <<m1.currentRound, "attacker">>),
                  Note(m1.currentDefender, "roundStart", <<m1.currentRound, "defender">>)>>)

StartRound(W) ==
    IF Code \notin matches THEN W
    ELSE
    LET m0 == W.match
        m1 == [m0 EXCEPT !.state = "playing", !.currentMove = NoMove,
                         !.roundTimer = "handle"]
    IN  World(m1,
              AddTimer(Untrack(W.timers, "round"),
                       Timer("round", RoundDuration, "-", TRUE, IntervalDelay)),
              W.emitted \o
                <<Note(m1.currentAttacker, "startAttacking", <<m1.currentRound>>),
                  Note(m1.currentDefender, "startDefending", <<m1.currentRound>>)>>)

\* a test that ends the match one round early
IsLastRoundEarly(m) == m.currentRound + 1 >= m.totalRounds

\* endRound, line 260: the match is over
IsLastRound(m) == m.currentRound >= m.totalRounds

EndRound(W) ==
    IF Code \notin matches THEN W
    ELSE
    LET m0 == W.match
        T1 == IF m0.roundTimer # "null" THEN ClearTracked(W.timers, "round")
              ELSE W.timers
        T2 == IF m0.moveTimeout # "null" THEN ClearTracked(T1, "move") ELSE T1
        m1 == [m0 EXCEPT !.roundTimer = "null", !.moveTimeout = "null",
                         !.state = "roundEnd"]
        T3 == IF IsLastRound(m1)
              THEN AddTimer(T2, Timer("endMatch", 0, "-", FALSE, EndMatchDelay))
              ELSE AddTimer(T2, Timer("nextRound", 0, "-", FALSE, NextRoundDelay))
    IN  World(m1, T3,
              W.emitted \o
                <<Note("room", "roundEnd", <<m1.currentRound, m1.scores>>)>>)

EndMatch(W) ==
    IF Code \notin matches THEN W
    ELSE
    LET m1 == [W.match EXCEPT !.state = "matchEnd"]
    IN  World(m1, W.timers,
              W.emitted \o
                <<Note("room", "matchEnd", <<m1.scores, Winner(m1.scores)>>)>>)

----------------------------------------------------------------------------
(* The browser page (src/public/game.js) *)

\* positions are in thousandths of the frame; <<>> stands for null
NoPosition == <<>>

\* the page after load, lines 5-27.  timeouts counts the pending
\* setTimeout closures (finishCalibration, isTracking = true); emitted is
\* what the last handler sent to the server; owed is history: 1 once an
\* incomingMove has arrived, less one per defendMove sent since
NoClient ==
    [currentRole |-> "null", isTracking |-> FALSE,
     cameraInitialized |-> FALSE,
     centerPosition |-> NoPosition, calibrationSamples |-> <<>>,
     isCalibrating |-> FALSE, smoothedPosition |-> NoPosition,
     currentExpectedMove |-> "null", hasRespondedToMove |-> FALSE,
     timeouts |-> [calibration |-> 0, tracking |-> 0],
     emitted |-> <<>>, owed |-> 0]

----------------------------------------------------------------------------
(* History variables *)

NoStat == [issued |-> FALSE, results |-> 0, missed |-> 0]

\* matchEnd emitted by this handler
EndedBy(E) == "matchEnd" \in Events(E)

\* what a handler leaves behind: the match, the timers, its notifications
CommitMatch(W) ==
    /\ match' = W.match
    /\ timers' = W.timers
    /\ emitted' = W.emitted
    /\ ended' = IF "rematchStarting" \in Events(W.emitted) THEN FALSE
                ELSE (ended \/ EndedBy(W.emitted))
    /\ UNCHANGED <<limits, client>>

\* ... of a handler other than proposeRematch
Commit(W) == CommitMatch(W) /\ UNCHANGED <<other, proposers>>

Here == World(match, timers, <<>>)

----------------------------------------------------------------------------
Init ==
    /\ variant \in {"reactive", "guessing"}
    /\ serverUp = TRUE
    /\ matches = {}
    /\ match = NullMatch
    /\ other = NullMatch
    /\ sockets = [s \in Sockets |-> NullSocket]
    /\ timers = EmptyBag
    /\ emitted = <<>>
    /\ moveStat = NoStat
    /\ ended = FALSE
    /\ proposers = {}
    /\ client = NoClient
    /\ limits = [timers |-> [k \in Kinds |-> MaxTimers], round |-> MaxRound,
                 codes |-> {Code}]

Up(s) == serverUp /\ sockets[s].connected

\* matches.get(socket.matchCode) is the match under Code.  (The match under
\* OtherCode is never joined and stays in state waiting, in which attackMove,
\* defendMove and proposeRematch return as they do without a match.)
HasMatch(s) == sockets[s].matchCode = Code /\ Code \in matches

----------------------------------------------------------------------------
(* Reactive server: handlers *)

\* socket.on('createMatch').  generateMatchCode returns any of limits.codes;
\* Code is returned only while it has never been used, OtherCode at any
\* time: matches.set then replaces the match registered under it.
CreateMatch(s) ==
    /\ variant = "reactive" /\ Up(s)
    /\ \E matchCode \in limits.codes :
         LET m == [NullMatch EXCEPT
                     !.code = matchCode, !.player1 = s, !.currentRound = 1,
                     !.totalRounds = ReactiveRounds, !.state = "waiting"]
             E == <<Note(s, "matchCreated", <<matchCode>>)>>
         IN  /\ matches' = matches \cup {matchCode}
             /\ sockets' = [sockets EXCEPT ![s].matchCode = matchCode,
                                           ![s].playerRole = "player1"]
             /\ IF matchCode = Code
                THEN /\ match = NullMatch
                     /\ CommitMatch(World(m, timers, E))
                     /\ UNCHANGED other
                ELSE /\ CommitMatch(World(match, timers, E))
                     /\ other' = m
    /\ UNCHANGED <<variant, serverUp, moveStat, proposers>>

\* a joinMatch that attaches the requester even when the match is full
JoinMatchAttach(s, c) ==
    /\ variant = "reactive" /\ Up(s)
    /\ match.state \in JoinStates /\ c # OtherCode
    /\ IF c \notin matches
       THEN /\ Commit(World(match, timers,
                            <<Note(s, "joinError", <<"Match not found">>)>>))
            /\ UNCHANGED <<matches, sockets>>
       ELSE /\ sockets' = [sockets EXCEPT ![s].matchCode = c,
                                          ![s].playerRole = "player2"]
            /\ IF match.player2 # "null"
               THEN Commit(World(match, timers,
                                 <<Note(s, "joinError", <<"Match is full">>)>>))
               ELSE LET m1 == [match EXCEPT !.player2 = s]
                        W  == StartRoundCountdown(
                                World(m1, timers,
                                      <<Note("room", "matchStarted",
                                             <<c, m1.player1, m1.player2>>)>>))
                    IN  Bounded(W.timers) /\ Commit(W)
            /\ UNCHANGED matches
    /\ UNCHANGED <<variant, serverUp, moveStat>>

\* socket.on('joinMatch'); the match under OtherCode is never joined
JoinMatch(s, c) ==
    /\ variant = "reactive" /\ Up(s)
    /\ match.state \in JoinStates /\ c # OtherCode
    /\ IF c \notin matches
       THEN /\ Commit(World(match, timers,
                            <<Note(s, "joinError", <<"Match not found">>)>>))
            /\ UNCHANGED <<matches, sockets>>
       ELSE IF match.player2 # "null"
       THEN /\ Commit(World(match, timers,
                            <<Note(s, "joinError", <<"Match is full">>)>>))
            /\ UNCHANGED <<matches, sockets>>
       ELSE /\ sockets' = [sockets EXCEPT ![s].matchCode = c,
                                          ![s].playerRole = "player2"]
            /\ LET m1 == [match EXCEPT !.player2 = s]
                   W  == StartRoundCountdown(
                           World(m1, timers,
                                 <<Note("room", "matchStarted",
                                        <<c, m1.player1, m1.player2>>)>>))
               IN  Bounded(W.timers) /\ Commit(W)
            /\ UNCHANGED matches
    /\ UNCHANGED <<variant, serverUp, moveStat>>

\* the countdownInterval callback of startRoundCountdown
CountdownTick ==
  \E tm \in Due(timers, "countdown") :
    /\ variant = "reactive" /\ serverUp
    /\ LET E1 == <<Note("room", "countdown", <<tm.n>>)>>
           count == tm.n - 1
           T0 == DelTimer(timers, tm)
           W  == IF count < 0 THEN StartRound(World(match, T0, E1))
                 ELSE World(match, AddTimer(T0, [tm EXCEPT !.n = count, !.due = IntervalDelay]), E1)
       IN  Bounded(W.timers) /\ Commit(W)
    /\ UNCHANGED <<variant, serverUp, matches, sockets, moveStat>>

\* the setInterval callback of startRound (match.roundTimer).  A timer that
\* nothing clears keeps counting below zero and calls endRound on every
\* tick; its timeLeft is kept at 0 from then on.
RoundTimerTick ==
  \E tm \in Due(timers, "round") :
    /\ variant = "reactive" /\ serverUp
    /\ LET timeLeft == IF tm.n - 1 < 0 THEN 0 ELSE tm.n - 1
           T0 == AddTimer(DelTimer(timers, tm), [tm EXCEPT !.n = timeLeft, !.due = IntervalDelay])
           E1 == <<Note("room", "roundTimer", <<timeLeft>>)>>
           W  == IF timeLeft <= 0 THEN EndRound(World(match, T0, E1))
                 ELSE World(match, T0, E1)
       IN  Bounded(W.timers) /\ Commit(W)
    /\ UNCHANGED <<variant, serverUp, matches, sockets, moveStat>>

\* an attackMove that leaves the previous move timeout running
KeepMoveTimeout(m, T) == T

\* attackMove, lines 159-162: clear any existing move timeout
ClearMoveTimeout(m, T) ==
    IF m.moveTimeout # "null" THEN ClearTracked(T, "move") ELSE T

\* an attackMove that does not look at the state of the match
AttackAnyState(s) ==
    /\ HasMatch(s)
    /\ s = match.currentAttacker

\* attackMove, lines 155-157: the guards
AttackAccepted(s) ==
    /\ HasMatch(s) /\ match.state = "playing"
    /\ s = match.currentAttacker

\* socket.on('attackMove')
AttackMove(s, move) ==
    /\ variant = "reactive" /\ Up(s)
    /\ IF ~AttackAccepted(s)
       THEN Commit(Here) /\ UNCHANGED moveStat
       ELSE LET T1 == ClearMoveTimeout(match, timers)
                m1 == [match EXCEPT
                         !.currentMove = [direction |-> move, responded |-> FALSE],
                         !.moveTimeout = "handle"]
                T2 == AddTimer(Untrack(T1, "move"), Timer("move", 0, move, TRUE, MoveWindow))
            IN  /\ Bounded(T2)
                /\ Commit(World(m1, T2,
                     <<Note(m1.currentDefender, "incomingMove", <<move>>),
                       Note(m1.currentAttacker, "moveSent", <<move>>)>>))
                /\ moveStat' = [issued |-> TRUE, results |-> 0, missed |-> 0]
    /\ UNCHANGED <<variant, serverUp, matches, sockets>>

\* the setTimeout callback of attackMove (match.moveTimeout), lines 180-187
MoveTimeoutFire ==
  \E tm \in Due(timers, "move") :
    /\ variant = "reactive" /\ serverUp
    /\ LET T0 == DelTimer(timers, tm)
       IN  IF match.currentMove # NoMove /\ ~match.currentMove.responded
           THEN /\ Commit(World([match EXCEPT !.currentMove = NoMove], T0,
                     <<Note(match.currentDefender, "moveMissed", <<tm.dir>>),
                       Note(match.currentAttacker, "opponentMissed", <<tm.dir>>)>>))
                /\ moveStat' = [moveStat EXCEPT !.missed = @ + 1]
           ELSE Commit(World(match, T0, <<>>)) /\ UNCHANGED moveStat
    /\ UNCHANGED <<variant, serverUp, matches, sockets>>

\* a correct response that costs the defender a point
AwardPenalty(m) ==
    IF m.currentDefender = m.player1
    THEN [m EXCEPT !.scores.player1 = @ - 1]
    ELSE [m EXCEPT !.scores.player2 = @ - 1]

\* defendMove, lines 202-209: award the point to the defender
AwardPoint(m) ==
    IF m.currentDefender = m.player1
    THEN [m EXCEPT !.scores.player1 = @ + 1]
    ELSE [m EXCEPT !.scores.player2 = @ + 1]

\* a defendMove that does not look at the move's responded flag
DefendUnchecked(s) ==
    /\ HasMatch(s) /\ match.state = "playing"
    /\ s = match.currentDefender

\* a defendMove that does not look at who sent it
DefendAnySender(s) ==
    /\ HasMatch(s) /\ match.state = "playing"
    /\ match.currentMove # NoMove /\ ~match.currentMove.responded

\* defendMove, lines 191-195: the guards
DefendAccepted(s) ==
    /\ HasMatch(s) /\ match.state = "playing"
    /\ s = match.currentDefender
    /\ match.currentMove # NoMove /\ ~match.currentMove.responded

\* socket.on('defendMove')
DefendMove(s, detectedMove) ==
    /\ variant = "reactive" /\ Up(s)
    /\ IF ~DefendAccepted(s)
       THEN Commit(Here) /\ UNCHANGED moveStat
       ELSE LET expectedMove == match.currentMove.direction
                isCorrect == detectedMove = expectedMove
                m1 == IF isCorrect THEN AwardPoint(match) ELSE match
                T1 == IF m1.moveTimeout # "null"
                      THEN ClearTracked(timers, "move") ELSE timers
                m2 == [m1 EXCEPT !.moveTimeout = "null", !.currentMove = NoMove]
            IN  /\ m2.scores.player1 <= MaxScore /\ m2.scores.player2 <= MaxScore
                /\ Commit(World(m2, T1,
                     <<Note(m2.currentDefender, "moveResult",
                            <<expectedMove, detectedMove, isCorrect>>),
                       Note(m2.currentAttacker, "opponentResult",
                            <<expectedMove, detectedMove, isCorrect>>)>>))
                /\ moveStat' = [moveStat EXCEPT !.results = @ + 1]
    /\ UNCHANGED <<variant, serverUp, matches, sockets>>

\* the 3000 ms setTimeout callback of endRound, lines 264-267
NextRoundFire ==
  \E tm \in Due(timers, "nextRound") :
    /\ variant = "reactive" /\ serverUp
    /\ match.currentRound < limits.round
    /\ LET W == StartRoundCountdown(
                  World([match EXCEPT !.currentRound = @ + 1],
                        DelTimer(timers, tm), <<>>))
       IN  Bounded(W.timers) /\ Commit(W)
    /\ UNCHANGED <<variant, serverUp, matches, sockets, moveStat>>

\* the 2000 ms setTimeout callback of endRound, line 261
EndMatchFire ==
  \E tm \in Due(timers, "endMatch") :
    /\ variant = "reactive" /\ serverUp
    /\ Commit(EndMatch(World(match, DelTimer(timers, tm), <<>>)))
    /\ UNCHANGED <<variant, serverUp, matches, sockets, moveStat>>

\* a reset that one proposal is enough for
RematchResetEither(W) ==
    IF W.match.rematchProposals.player1 \/ W.match.rematchProposals.player2
    THEN World([W.match EXCEPT
                  !.currentRound = 1,
                  !.scores = [player1 |-> 0, player2 |-> 0],
                  !.rematchProposals = [player1 |-> FALSE, player2 |-> FALSE]],
               AddTimer(W.timers, Timer("rematch", 0, "-", FALSE, RematchDelay)),
               W.emitted \o <<Note("room", "rematchStarting", <<>>)>>)
    ELSE W

\* proposeRematch, lines 304-315: both proposed, reset and restart
RematchReset(W) ==
    IF W.match.rematchProposals.player1 /\ W.match.rematchProposals.player2
    THEN World([W.match EXCEPT
                  !.currentRound = 1,
                  !.scores = [player1 |-> 0, player2 |-> 0],
                  !.rematchProposals = [player1 |-> FALSE, player2 |-> FALSE]],
               AddTimer(W.timers, Timer("rematch", 0, "-", FALSE, RematchDelay)),
               W.emitted \o <<Note("room", "rematchStarting", <<>>)>>)
    ELSE W

\* a proposeRematch that does not look at the state of the match
RematchAnyState(s) == HasMatch(s)

\* proposeRematch, lines 293-294: the guards
RematchAccepted(s) == HasMatch(s) /\ match.state = "matchEnd"

\* socket.on('proposeRematch')
ProposeRematch(s) ==
    /\ variant = "reactive" /\ Up(s)
    /\ IF ~RematchAccepted(s)
       THEN Commit(Here)
       ELSE LET W1 == IF sockets[s].playerRole = "player1"
                      THEN World([match EXCEPT !.rematchProposals.player1 = TRUE],
                                 timers,
                                 <<Note(match.player2, "rematchProposed", <<>>)>>)
                      ELSE World([match EXCEPT !.rematchProposals.player2 = TRUE],
                                 timers,
                                 <<Note(match.player1, "rematchProposed", <<>>)>>)
                W2 == RematchReset(W1)
            IN  /\ Bounded(W2.timers) /\ CommitMatch(W2)
                /\ proposers' = proposers \cup {s}
                /\ UNCHANGED other
    /\ UNCHANGED <<variant, serverUp, matches, sockets, moveStat>>

\* the 1000 ms setTimeout callback of proposeRematch, lines 312-314
RematchFire ==
  \E tm \in Due(timers, "rematch") :
    /\ variant = "reactive" /\ serverUp
    /\ LET W == StartRoundCountdown(World(match, DelTimer(timers, tm), <<>>))
       IN  Bounded(W.timers) /\ Commit(W)
    /\ UNCHANGED <<variant, serverUp, matches, sockets, moveStat>>

\* socket.on('disconnect')
Disconnect(s) ==
    /\ variant = "reactive" /\ Up(s)
    /\ sockets' = [sockets EXCEPT ![s].connected = FALSE]
    /\ IF sockets[s].matchCode # "null" /\ HasMatch(s)
       THEN LET T1 == IF match.roundTimer # "null"
                      THEN ClearTracked(timers, "round") ELSE timers
                T2 == IF match.moveTimeout # "null"
                      THEN ClearTracked(T1, "move") ELSE T1
            IN  /\ Commit(World(match, T2,
                                <<Note("room", "opponentDisconnected", <<>>)>>))
                /\ matches' = matches \ {sockets[s].matchCode}
       ELSE IF sockets[s].matchCode = OtherCode /\ OtherCode \in matches
       THEN \* a waiting match: no roundTimer, no moveTimeout
            /\ CommitMatch(World(match, timers,
                                 <<Note(OtherCode, "opponentDisconnected", <<>>)>>))
            /\ matches' = matches \ {OtherCode}
            /\ other' = NullMatch
            /\ UNCHANGED proposers
       ELSE Commit(Here) /\ UNCHANGED matches
    /\ UNCHANGED <<variant, serverUp, moveStat>>

----------------------------------------------------------------------------
(* Guessing server: handlers *)

\* submitGuess's winner computation (lines 487-488)
WinnerG(scores) ==
    IF scores.player1 > scores.player2 THEN "player1"
    ELSE IF scores.player2 > scores.player1 THEN "player2"
    ELSE "tie"

\* socket.on('createMatch')
CreateMatchG(s) ==
    /\ variant = "guessing" /\ Up(s)
    /\ match = NullMatch
    /\ matches' = matches \cup {Code}
    /\ sockets' = [sockets EXCEPT ![s].matchCode = Code,
                                  ![s].playerRole = "player1"]
    /\ Commit(World([NullMatch EXCEPT
                        !.code = Code, !.player1 = s, !.currentRound = 1,
                        !.totalRounds = GuessingRounds, !.state = "waiting"],
                    timers,
                    <<Note(s, "matchCreated", <<Code>>)>>))
    /\ UNCHANGED <<variant, serverUp, moveStat>>

\* socket.on('joinMatch')
JoinMatchG(s, c) ==
    /\ variant = "guessing" /\ Up(s)
    /\ match.state \in JoinStates
    /\ IF c \notin matches
       THEN /\ Commit(World(match, timers,
                            <<Note(s, "joinError", <<"Match not found">>)>>))
            /\ UNCHANGED <<matches, sockets>>
       ELSE IF match.player2 # "null"
       THEN /\ Commit(World(match, timers,
                            <<Note(s, "joinError", <<"Match is full">>)>>))
            /\ UNCHANGED <<matches, sockets>>
       ELSE /\ sockets' = [sockets EXCEPT ![s].matchCode = c,
                                          ![s].playerRole = "player2"]
            /\ LET m1 == [match EXCEPT !.player2 = s, !.state = "inputting"]
               IN  Commit(World(m1, timers,
                     <<Note("room", "matchStarted", <<c, m1.player1, m1.player2>>),
                       Note(m1.player1, "inputCombination", <<m1.currentRound>>),
                       Note(m1.player2, "waitingForCombination", <<m1.currentRound>>)>>))
            /\ UNCHANGED matches
    /\ UNCHANGED <<variant, serverUp, moveStat>>

\* a length test that lets a shorter combination through
LengthAtMost(combination) == Len(combination) <= CombinationLength

\* submitCombination, line 423: combination.length !== 4 is refused
LengthOk(combination) == Len(combination) = CombinationLength

\* socket.on('submitCombination')
SubmitCombination(s, combination) ==
    /\ variant = "guessing" /\ Up(s)
    /\ Len(combination) = CombinationLength \/ match.state \in BadLengthStates
    /\ IF ~HasMatch(s) \/ sockets[s].playerRole # "player1"
       THEN Commit(Here)
       ELSE IF ~LengthOk(combination)
       THEN Commit(World(match, timers,
                         <<Note(s, "combinationError", <<>>)>>))
       ELSE LET m1 == [match EXCEPT !.combination = combination,
                                    !.state = "countdown"]
                T1 == AddTimer(timers, Timer("gCountdown", CountdownSeconds, "-",
                                             FALSE, IntervalDelay))
            IN  /\ Bounded(T1)
                /\ Commit(World(m1, T1,
                     <<Note(m1.player2, "getReady", <<m1.currentRound>>),
                       Note(m1.player1, "watchingOpponent", <<m1.currentRound>>)>>))
    /\ UNCHANGED <<variant, serverUp, matches, sockets, moveStat>>

\* the countdownInterval callback of submitCombination, lines 439-452
GCountdownTick ==
  \E tm \in Due(timers, "gCountdown") :
    /\ variant = "guessing" /\ serverUp
    /\ LET E1 == <<Note("room", "countdown", <<tm.n>>)>>
           countdown == tm.n - 1
           T0 == DelTimer(timers, tm)
       IN  IF countdown < 0
           THEN Commit(World([match EXCEPT !.state = "guessing"], T0,
                   E1 \o <<Note(match.player2, "startGuessing",
                                <<GuessDuration, match.currentRound>>),
                           Note(match.player1, "opponentGuessing", <<GuessDuration>>)>>))
           ELSE Commit(World(match,
                   AddTimer(T0, [tm EXCEPT !.n = countdown, !.due = IntervalDelay]),
                   E1))
    /\ UNCHANGED <<variant, serverUp, matches, sockets, moveStat>>

\* submitGuess, lines 460-471: guessedMoves[i] is undefined beyond its length
CorrectMoves(guessedMoves, combination) ==
    Cardinality({i \in 1..CombinationLength :
                    i <= Len(guessedMoves) /\ guessedMoves[i] = combination[i]})

\* an award that also credits player1 with the moves player2 missed
AwardBoth(scores, correctMoves) ==
    [scores EXCEPT !.player1 = @ + (CombinationLength - correctMoves),
                   !.player2 = @ + correctMoves]

\* submitGuess, line 473: match.scores.player2 += correctMoves
AwardGuess(scores, correctMoves) ==
    [scores EXCEPT !.player2 = @ + correctMoves]

\* socket.on('submitGuess').  Reading match.combination[i] while the
\* combination is null throws a TypeError out of the handler.
SubmitGuess(s, guessedMoves) ==
    /\ variant = "guessing" /\ Up(s)
    /\ IF ~HasMatch(s) \/ sockets[s].playerRole # "player2"
       THEN Commit(Here) /\ UNCHANGED serverUp
       ELSE IF match.combination = <<>>
       THEN /\ serverUp' = FALSE
            /\ Commit(Here)
       ELSE LET correctMoves == CorrectMoves(guessedMoves, match.combination)
                m1 == [match EXCEPT !.scores = AwardGuess(@, correctMoves),
                                    !.state = "roundEnd"]
                E1 == <<Note("room", "roundResult",
                             <<m1.currentRound, correctMoves, m1.scores>>)>>
            IN  /\ m1.scores.player2 <= MaxGuessScore
                /\ UNCHANGED serverUp
                /\ IF m1.currentRound >= m1.totalRounds
                   THEN Commit(World([m1 EXCEPT !.state = "matchEnd"], timers,
                           E1 \o <<Note("room", "matchEnd",
                                        <<m1.scores, WinnerG(m1.scores)>>)>>))
                   ELSE LET T1 == AddTimer(timers, Timer("gNextRound", 0, "-",
                                                         FALSE, NextRoundDelay))
                        IN  Bounded(T1) /\ Commit(World(m1, T1, E1))
    /\ UNCHANGED <<variant, matches, sockets, moveStat>>

\* the 3000 ms setTimeout callback of submitGuess, lines 495-502
GNextRoundFire ==
  \E tm \in Due(timers, "gNextRound") :
    /\ variant = "guessing" /\ serverUp
    /\ match.currentRound < limits.round
    /\ LET m1 == [match EXCEPT !.currentRound = @ + 1, !.combination = <<>>,
                               !.state = "inputting"]
       IN  Commit(World(m1, DelTimer(timers, tm),
             <<Note(m1.player1, "inputCombination", <<m1.currentRound>>),
               Note(m1.player2, "waitingForCombination", <<m1.currentRound>>)>>))
    /\ UNCHANGED <<variant, serverUp, matches, sockets, moveStat>>

\* proposeRematch, lines 519-532: both proposed, reset
RematchResetG(W) ==
    IF W.match.rematchProposals.player1 /\ W.match.rematchProposals.player2
    THEN World([W.match EXCEPT
                  !.currentRound = 1,
                  !.scores = [player1 |-> 0, player2 |-> 0],
                  !.combination = <<>>,
                  !.rematchProposals = [player1 |-> FALSE, player2 |-> FALSE],
                  !.state = "inputting"],
               AddTimer(W.timers, Timer("gRematch", 0, "-", FALSE, RematchDelay)),
               W.emitted \o <<Note("room", "rematchStarting", <<>>)>>)
    ELSE W

\* socket.on('proposeRematch')
ProposeRematchG(s) ==
    /\ variant = "guessing" /\ Up(s)
    /\ IF ~HasMatch(s) \/ match.state # "matchEnd"
       THEN Commit(Here)
       ELSE LET W1 == IF sockets[s].playerRole = "player1"
                      THEN World([match EXCEPT !.rematchProposals.player1 = TRUE],
                                 timers,
                                 <<Note(match.player2, "rematchProposed", <<"player1">>)>>)
                      ELSE World([match EXCEPT !.rematchProposals.player2 = TRUE],
                                 timers,
                                 <<Note(match.player1, "rematchProposed", <<"player2">>)>>)
                W2 == RematchResetG(W1)
            IN  /\ Bounded(W2.timers) /\ CommitMatch(W2)
                /\ proposers' = proposers \cup {s}
                /\ UNCHANGED other
    /\ UNCHANGED <<variant, serverUp, matches, sockets, moveStat>>

\* the 1000 ms setTimeout callback of proposeRematch, lines 528-531
GRematchFire ==
  \E tm \in Due(timers, "gRematch") :
    /\ variant = "guessing" /\ serverUp
    /\ Commit(World(match, DelTimer(timers, tm),
         <<Note(match.player1, "inputCombination", <<match.currentRound>>),
           Note(match.player2, "waitingForCombination", <<match.currentRound>>)>>))
    /\ UNCHANGED <<variant, serverUp, matches, sockets, moveStat>>

\* socket.on('disconnect')
DisconnectG(s) ==
    /\ variant = "guessing" /\ Up(s)
    /\ sockets' = [sockets EXCEPT ![s].connected = FALSE]
    /\ IF sockets[s].matchCode # "null" /\ HasMatch(s)
       THEN /\ Commit(World(match, timers,
                            <<Note("room", "opponentDisconnected", <<>>)>>))
            /\ matches' = matches \ {sockets[s].matchCode}
       ELSE Commit(Here) /\ UNCHANGED matches
    /\ UNCHANGED <<variant, serverUp, moveStat>>

----------------------------------------------------------------------------
\* one second passes; every timer that is due has fired
Tick ==
    /\ serverUp
    /\ timers # EmptyBag
    /\ \A tm \in BagToSet(timers) : tm.due > 0
    /\ timers' = [tm \in {[x EXCEPT !.due = @ - 1] : x \in BagToSet(timers)}
                    |-> timers[[tm EXCEPT !.due = @ + 1]]]
    /\ emitted' = <<>>
    /\ UNCHANGED <<variant, serverUp, matches, match, other, sockets, moveStat,
                   ended, proposers, limits, client>>

ReactiveNext ==
    \/ \E s \in {"host"} : CreateMatch(s)
    \/ \E s \in Sockets, c \in JoinCodes : JoinMatch(s, c)
    \/ CountdownTick
    \/ RoundTimerTick
    \/ \E s \in Sockets, d \in Directions : AttackMove(s, d)
    \/ MoveTimeoutFire
    \/ \E s \in Sockets, d \in Directions : DefendMove(s, d)
    \/ NextRoundFire
    \/ EndMatchFire
    \/ \E s \in Sockets : ProposeRematch(s)
    \/ RematchFire
    \/ \E s \in Sockets : Disconnect(s)

GuessingNext ==
    \/ \E s \in {"host"} : CreateMatchG(s)
    \/ \E s \in Sockets, c \in JoinCodes : JoinMatchG(s, c)
    \/ \E s \in Sockets, c \in Combinations : SubmitCombination(s, c)
    \/ GCountdownTick
    \/ \E s \in Sockets, g \in Guesses : SubmitGuess(s, g)
    \/ GNextRoundFire
    \/ \E s \in Sockets : ProposeRematchG(s)
    \/ GRematchFire
    \/ \E s \in Sockets : DisconnectG(s)

Next == ReactiveNext \/ GuessingNext \/ Tick

\* both servers
Spec == Init /\ [][Next]_vars

\* the reactive server alone
InitR  == Init /\ variant = "reactive"
NextR  == ReactiveNext \/ Tick
SpecR  == InitR /\ [][NextR]_vars

\* the guessing server alone
InitG  == Init /\ variant = "guessing"
NextG  == GuessingNext \/ Tick
SpecG  == InitG /\ [][NextG]_vars

\* the reactive server while the participants send no move and stay
\* connected: they only join and propose rematches.  Every behaviour of
\* SpecQuiet is a behaviour of the server; with no moves to explore, the
\* timers can be followed further.
InitQuiet ==
    /\ variant = "reactive"
    /\ serverUp = TRUE
    /\ matches = {}
    /\ match = NullMatch
    /\ other = NullMatch
    /\ sockets = [s \in Sockets |-> NullSocket]
    /\ timers = EmptyBag
    /\ emitted = <<>>
    /\ moveStat = NoStat
    /\ ended = FALSE
    /\ proposers = {}
    /\ client = NoClient
    /\ limits = [timers |-> [countdown |-> QuietCountdowns,
                              round     |-> QuietIntervals,
                              move      |-> 0,
                              nextRound |-> QuietNextRounds,
                              endMatch  |-> QuietEndMatches,
                              rematch   |-> QuietRematches],
                 round  |-> QuietRound,
                 codes  |-> {Code}]
NextQuiet ==
    \/ \E s \in {"host"} : CreateMatch(s)
    \/ \E s \in {"guest"}, c \in {Code} : JoinMatch(s, c)
    \/ CountdownTick
    \/ RoundTimerTick
    \/ NextRoundFire
    \/ EndMatchFire
    \/ \E s \in Sockets : ProposeRematch(s)
    \/ RematchFire
    \/ Tick
SpecQuiet == InitQuiet /\ [][NextQuiet]_vars

\* the reactive server's lobby: generateMatchCode returns either of two
\* codes, and matches are created, joined and abandoned up to the first
\* round's countdown.  Every behaviour of SpecLobby is the beginning of a
\* behaviour of the server.
InitLobby ==
    /\ variant = "reactive"
    /\ serverUp = TRUE
    /\ matches = {}
    /\ match = NullMatch
    /\ other = NullMatch
    /\ sockets = [s \in Sockets |-> NullSocket]
    /\ timers = EmptyBag
    /\ emitted = <<>>
    /\ moveStat = NoStat
    /\ ended = FALSE
    /\ proposers = {}
    /\ client = NoClient
    /\ limits = [timers |-> [k \in Kinds |-> MaxTimers], round |-> MaxRound,
                 codes |-> {Code, OtherCode}]
NextLobby ==
    \/ \E s \in Sockets : CreateMatch(s)
    \/ \E s \in Sockets, c \in JoinCodes : JoinMatch(s, c)
    \/ CountdownTick
    \/ \E s \in Sockets : Disconnect(s)
    \/ Tick
SpecLobby == InitLobby /\ [][NextLobby]_vars

\* the guessing server with its scheduling: the event loop runs every timer
\* callback that is due and time passes; participants may stay silent
FairG ==
    /\ WF_vars(Tick)
    /\ WF_vars(GCountdownTick)
    /\ WF_vars(GNextRoundFire)
    /\ WF_vars(GRematchFire)
SpecGFair == SpecG /\ FairG

\* the reactive server up to the end of the match, with its scheduling: no
\* rematch is proposed (before matchEnd a proposal is dropped, line 294),
\* the event loop runs every timer callback that is due and time passes;
\* participants may send anything or stay silent
NextFirst ==
    \/ \E s \in {"host"} : CreateMatch(s)
    \/ \E s \in Sockets, c \in JoinCodes : JoinMatch(s, c)
    \/ CountdownTick
    \/ RoundTimerTick
    \/ \E s \in Sockets, d \in Directions : AttackMove(s, d)
    \/ MoveTimeoutFire
    \/ \E s \in Sockets, d \in Directions : DefendMove(s, d)
    \/ NextRoundFire
    \/ EndMatchFire
    \/ \E s \in Sockets : Disconnect(s)
    \/ Tick
FairFirst ==
    /\ WF_vars(Tick) /\ WF_vars(CountdownTick) /\ WF_vars(RoundTimerTick)
    /\ WF_vars(MoveTimeoutFire) /\ WF_vars(NextRoundFire)
    /\ WF_vars(EndMatchFire)
SpecFirstFair == InitR /\ [][NextFirst]_vars /\ FairFirst

----------------------------------------------------------------------------
(* The browser page of the reactive game: handlers of src/public/game.js *)

SmoothingTenths   == 4     \* SMOOTHING_FACTOR = 0.4
ReactionThreshold == 60    \* REACTION_THRESHOLD = 0.06, in thousandths

\* nose positions the face detection reports: centred, up, right
FacePositions == {<<500, 500>>, <<500, 400>>, <<600, 500>>}

serverVars == <<variant, serverUp, matches, match, other, sockets, timers,
                emitted, moveStat, ended, proposers, limits>>

Abs(n) == IF n < 0 THEN -n ELSE n

\* what a handler of the page starts from: nothing sent yet
Page == [client EXCEPT !.emitted = <<>>]

\* initCamera, lines 39-87: returns at once when the camera is initialized;
\* otherwise the camera starts (ok) or getUserMedia is refused
InitCamera(c, ok) ==
    IF c.cameraInitialized THEN c ELSE [c EXCEPT !.cameraInitialized = ok]

\* startCalibration, lines 160-173
StartCalibration(c) ==
    [c EXCEPT !.isCalibrating = TRUE, !.calibrationSamples = <<>>,
              !.centerPosition = NoPosition, !.smoothedPosition = NoPosition,
              !.timeouts.calibration = @ + 1]

RECURSIVE SumOf(_, _)
SumOf(samples, k) ==
    IF samples = <<>> THEN 0 ELSE Head(samples)[k] + SumOf(Tail(samples), k)

\* finishCalibration's centre, lines 176-187: the mean of the samples, or the
\* middle of the frame
CenterOf(samples) ==
    IF Len(samples) > 0
    THEN <<SumOf(samples, 1) \div Len(samples), SumOf(samples, 2) \div Len(samples)>>
    ELSE <<500, 500>>

\* processHeadMovement, lines 201-206 (to the thousandth)
Smooth(smoothed, pos) ==
    IF smoothed # NoPosition
    THEN <<smoothed[1] + (SmoothingTenths * (pos[1] - smoothed[1])) \div 10,
           smoothed[2] + (SmoothingTenths * (pos[2] - smoothed[2])) \div 10>>
    ELSE pos

\* processHeadMovement, lines 208-220
DetectedDirection(smoothed, center) ==
    LET deltaX == smoothed[1] - center[1]
        deltaY == smoothed[2] - center[2]
    IN  IF deltaX * deltaX + deltaY * deltaY > ReactionThreshold * ReactionThreshold
        THEN IF Abs(deltaY) > Abs(deltaX)
             THEN (IF deltaY < 0 THEN "up" ELSE "down")
             ELSE (IF deltaX < 0 THEN "left" ELSE "right")
        ELSE "null"

\* processHeadMovement, lines 197-235: the first detected direction is sent
\* and locked in
ProcessHeadMovement(c, pos) ==
    IF c.centerPosition = NoPosition \/ c.hasRespondedToMove THEN c
    ELSE LET smoothed == Smooth(c.smoothedPosition, pos)
             detectedDirection == DetectedDirection(smoothed, c.centerPosition)
             c1 == [c EXCEPT !.smoothedPosition = smoothed]
         IN  IF detectedDirection # "null"
             THEN [c1 EXCEPT !.hasRespondedToMove = TRUE,
                             !.emitted = <<[event |-> "defendMove",
                                            arg |-> detectedDirection]>>,
                             !.owed = IF @ > 0 THEN @ - 1 ELSE -1]
             ELSE c1

\* a tracking test that does not ask whether a move is expected
TrackingAnyTime(c) ==
    c.isTracking /\ c.centerPosition # NoPosition /\ ~c.hasRespondedToMove

\* onFaceResults, line 154
ShouldProcess(c) ==
    /\ c.isTracking /\ c.centerPosition # NoPosition
    /\ c.currentExpectedMove # "null" /\ ~c.hasRespondedToMove

\* onFaceResults, lines 96-158, with a face detected at pos; the callback is
\* registered by initCamera
OnFaceResults(pos) ==
    /\ variant = "reactive" /\ client.cameraInitialized
    /\ IF client.isCalibrating
       THEN /\ Len(client.calibrationSamples) < MaxSamples
            /\ client' = [Page EXCEPT !.calibrationSamples = Append(@, pos)]
       ELSE IF ShouldProcess(client)
       THEN client' = ProcessHeadMovement(Page, pos)
       ELSE client' = Page
    /\ UNCHANGED serverVars

\* the setTimeout(finishCalibration, CALIBRATION_TIME) of startCalibration
FinishCalibration ==
    /\ variant = "reactive" /\ client.timeouts.calibration > 0
    /\ client' = [Page EXCEPT
                    !.timeouts.calibration = @ - 1,
                    !.centerPosition = CenterOf(client.calibrationSamples),
                    !.smoothedPosition = CenterOf(client.calibrationSamples),
                    !.isCalibrating = FALSE]
    /\ UNCHANGED serverVars

\* socket.on('roundStart'), lines 347-370
OnRoundStart(role, ok) ==
    /\ variant = "reactive"
    /\ client' = IF role = "attacker"
                 THEN [Page EXCEPT !.currentRole = role]
                 ELSE InitCamera([Page EXCEPT !.currentRole = role], ok)
    /\ UNCHANGED serverVars

\* socket.on('startAttacking'), lines 377-385
OnStartAttacking ==
    /\ variant = "reactive"
    /\ client' = [Page EXCEPT !.currentRole = "attacker"]
    /\ UNCHANGED serverVars

\* socket.on('startDefending'), lines 387-403
OnStartDefending(ok) ==
    /\ variant = "reactive"
    /\ client.timeouts.calibration < MaxTimeouts
    /\ client.timeouts.tracking < MaxTimeouts
    /\ client' = [StartCalibration(
                     InitCamera([Page EXCEPT !.currentRole = "defender"], ok))
                  EXCEPT !.timeouts.tracking = @ + 1]
    /\ UNCHANGED serverVars

\* the setTimeout of startDefending, lines 397-399
TrackingTimeout ==
    /\ variant = "reactive" /\ client.timeouts.tracking > 0
    /\ client' = [Page EXCEPT !.timeouts.tracking = @ - 1,
                              !.isTracking = TRUE]
    /\ UNCHANGED serverVars

\* socket.on('incomingMove'), lines 416-418
OnIncomingMove(direction) ==
    /\ variant = "reactive"
    /\ client' = [Page EXCEPT !.currentExpectedMove = direction,
                              !.hasRespondedToMove = FALSE,
                              !.owed = 1]
    /\ UNCHANGED serverVars

\* socket.on('moveMissed'), lines 439-441
OnMoveMissed ==
    /\ variant = "reactive"
    /\ client' = [Page EXCEPT !.currentExpectedMove = "null",
                              !.hasRespondedToMove = FALSE]
    /\ UNCHANGED serverVars

\* socket.on('moveResult'), line 459
OnMoveResult ==
    /\ variant = "reactive"
    /\ client' = [Page EXCEPT !.currentExpectedMove = "null"]
    /\ UNCHANGED serverVars

\* socket.on('roundEnd'), lines 503-505
OnRoundEnd ==
    /\ variant = "reactive"
    /\ client' = [Page EXCEPT !.isTracking = FALSE,
                              !.currentExpectedMove = "null"]
    /\ UNCHANGED serverVars

\* socket.on('matchEnd'), line 519
OnMatchEnd ==
    /\ variant = "reactive"
    /\ client' = [Page EXCEPT !.isTracking = FALSE]
    /\ UNCHANGED serverVars

\* location.reload(), lines 330 and 559: a fresh page
Reload ==
    /\ variant = "reactive" /\ client # NoClient
    /\ client' = NoClient
    /\ UNCHANGED serverVars

\* one page of the reactive game.  The page checks neither the order nor
\* the sender of what it receives, so the notifications arrive in any order
NextClient ==
    \/ \E role \in {"attacker", "defender"}, ok \in BOOLEAN : OnRoundStart(role, ok)
    \/ OnStartAttacking
    \/ \E ok \in BOOLEAN : OnStartDefending(ok)
    \/ FinishCalibration
    \/ TrackingTimeout
    \/ \E pos \in FacePositions : OnFaceResults(pos)
    \/ \E d \in Directions : OnIncomingMove(d)
    \/ OnMoveMissed
    \/ OnMoveResult
    \/ OnRoundEnd
    \/ OnMatchEnd
    \/ Reload
SpecClient == InitR /\ [][NextClient]_vars

----------------------------------------------------------------------------
(* Properties *)

Emitted(ev)     == ev \in Events(emitted)
EmittedNext(ev) == ev \in Events(emitted')

Outcomes == moveStat.results + moveStat.missed

ScoreSlots == {"player1", "player2"}

\* C1: in the reactive server, the defender's response and the reaction
\* timeout of one move are mutually exclusive -- a move never gets both a
\* moveResult/opponentResult and a moveMissed/opponentMissed -- and the step
\* that reports a miss changes neither score.
C1_ResponseXorTimeout ==
    /\ [](Outcomes <= 1)
    /\ [][EmittedNext("moveMissed") => match'.scores = match.scores]_vars

\* a move has timed out and was reported missed
C1_Witness ==
    /\ moveStat.issued /\ moveStat.missed = 1 /\ moveStat.results = 0
    /\ Emitted("moveMissed") /\ Emitted("opponentMissed")

\* C2 (as claimed): every move accepted by attackMove gets exactly one
\* outcome notification: when the next move is accepted, and when the round
\* ends, the last accepted move has had exactly one moveResult or moveMissed.
C2_ExactlyOneOutcome ==
    [][(moveStat.issued /\ (EmittedNext("moveSent") \/ EmittedNext("roundEnd")))
          => Outcomes = 1]_vars

\* C3: at most one Move is pending: at most one reaction window (move
\* timeout) is open at any time, the match's handle refers to it, and the
\* match holds no second Move beside the one in its slot.
C3_AtMostOnePending ==
    /\ KindCount(timers, "move") <= 1
    /\ \A tm \in TimersOf(timers, "move") :
          tm.tracked /\ match.moveTimeout = "handle"

\* a Move is pending, its reaction window open
C3_Witness ==
    /\ match.state = "playing"
    /\ match.currentMove # NoMove /\ ~match.currentMove.responded
    /\ KindCount(timers, "move") = 1

\* C4 (as claimed): attackMove creates a new Move only when the previous
\* Move is null or resolved; a pending Move is never replaced.
C4_NoReplacement ==
    [][EmittedNext("moveSent") => match.currentMove = NoMove]_vars

\* C5 (as claimed): an accepted defendMove adds one point to the score of
\* the current defender iff the detected direction is the pending move's
\* direction, and leaves the attacker's score unchanged.  A score belongs to
\* a participant when the participant holds that slot of the match.
C5_DefenderScoresAlone ==
    [][EmittedNext("moveResult") =>
         LET detected == emitted'[1].arg[2]
             correct  == detected = match.currentMove.direction
             gain     == IF correct THEN 1 ELSE 0
         IN  /\ \E k \in ScoreSlots :
                   /\ match[k] = match.currentDefender
                   /\ match'.scores[k] = match.scores[k] + gain
             /\ \A k \in ScoreSlots :
                   match[k] = match.currentAttacker
                      => match'.scores[k] = match.scores[k]]_vars

\* C6: no score ever decreases from one state to the next, except in the
\* step that resets the match for a rematch, which sets both scores to 0.
C6_ScoreMonotone ==
    [][\/ /\ match'.scores.player1 >= match.scores.player1
          /\ match'.scores.player2 >= match.scores.player2
       \/ /\ EmittedNext("rematchStarting")
          /\ match'.scores = [player1 |-> 0, player2 |-> 0]]_vars

\* a rematch has just reset the scores of a finished match
C6_Witness ==
    /\ Emitted("rematchStarting")
    /\ match.scores = [player1 |-> 0, player2 |-> 0]
    /\ match.currentRound = 1 /\ ~ended

\* C7 (as claimed): the round number changes only by +1 or by a rematch
\* reset to 1, and never exceeds totalRounds.
C7_RoundBounded ==
    /\ [](match.currentRound <= match.totalRounds)
    /\ [][match'.currentRound \in
             {match.currentRound, match.currentRound + 1, 1}]_vars

\* C8 (as claimed, safety half): matchEnd is never entered with a round
\* number below totalRounds.
C8_MatchEndOnlyAfterLastRound ==
    [][(match'.state = "matchEnd" /\ match.state # "matchEnd")
          => match'.currentRound >= match'.totalRounds]_vars

\* C9 (as claimed): per match instance matchEnd is emitted once and the
\* scores do not change afterwards: once matchEnd has been emitted, until a
\* rematch reset, no step changes a score or emits matchEnd again.
C9_MatchEndOnce ==
    [][(ended /\ ~EmittedNext("rematchStarting"))
          => /\ match'.scores = match.scores
             /\ ~EmittedNext("matchEnd")]_vars

\* C10: the winner reported in matchEnd is player1 iff score1 > score2,
\* player2 iff score2 > score1 and tie iff the scores are equal, for the
\* scores the match has at that moment.
C10_WinnerByComparison ==
    \A i \in 1..Len(emitted) :
        emitted[i].event = "matchEnd" =>
            LET sc     == emitted[i].arg[1]
                winner == emitted[i].arg[2]
            IN  /\ sc = match.scores
                /\ (winner = "player1") <=> (sc.player1 > sc.player2)
                /\ (winner = "player2") <=> (sc.player2 > sc.player1)
                /\ (winner = "tie")     <=> (sc.player1 = sc.player2)

\* a match has ended with player1 ahead
C10_Witness ==
    /\ Emitted("matchEnd")
    /\ match.scores.player1 > match.scores.player2

\* C11: as long as only one participant has proposed a rematch, however
\* often, a proposal resets nothing: the step that reports it emits no
\* rematchStarting and leaves round number, scores and state as they were.
C11_LoneProposalNoReset ==
    [][(EmittedNext("rematchProposed") /\ Cardinality(proposers') < 2)
          => /\ ~EmittedNext("rematchStarting")
             /\ match'.currentRound = match.currentRound
             /\ match'.scores = match.scores
             /\ match'.state = match.state]_vars

\* one participant has proposed again, the other never has
C11_Witness ==
    /\ Emitted("rematchProposed")
    /\ Cardinality(proposers) = 1
    /\ match.state = "matchEnd"
    /\ match.rematchProposals.player1 # match.rematchProposals.player2
    /\ match.scores.player2 > 0

\* C12 (as claimed): a finished match is reset once: every rematchStarting
\* is the first one since the last matchEnd was emitted, whatever further
\* proposeRematch events arrive before the restart delay has elapsed.
C12_ResetOncePerFinishedMatch ==
    [][EmittedNext("rematchStarting") => ended]_vars

\* C13 (as claimed): a match leaves matchEnd only through a completed
\* rematch handshake: in a step that takes the state out of matchEnd, the
\* match has been reset since its matchEnd was emitted.
C13_MatchEndLeftByRematchOnly ==
    [][(match.state = "matchEnd" /\ match'.state # "matchEnd") => ~ended']_vars

\* the match was registered and has been deleted from the registry
Deleted == match # NullMatch /\ Code \notin matches

\* C14 (as claimed): once a disconnect has deleted the match, nothing more
\* is emitted for it: a later step emits at most the joinError that answers
\* a joinMatch request.
C14_SilentAfterDisconnect ==
    [][Deleted => \A i \in 1..Len(emitted') : emitted'[i].event = "joinError"]_vars

\* the matches of the registry
LiveMatches == {m \in {match, other} : m.code \in matches /\ m # NullMatch}

\* C15 (as claimed): once a participant's disconnect has been processed, no
\* match of the registry has that participant as player1 or player2.
C15_NoMatchOfDisconnected ==
    \A s \in Sockets : ~sockets[s].connected =>
        \A m \in LiveMatches : m.player1 # s /\ m.player2 # s

\* C16 (as claimed): once the match has been deleted from the registry, no
\* later step -- in particular no timer callback scheduled for it -- changes
\* a field of the deleted match or registers a match under its code again.
C16_DeletedMatchUntouched ==
    [][Deleted => (match' = match /\ Code \notin matches')]_vars

\* a failed joinMatch of socket s: one joinError, to s only, nothing else
\* changes
JoinRefused(s, message) ==
    /\ emitted' = <<Note(s, "joinError", <<message>>)>>
    /\ UNCHANGED <<matches, match, other, sockets, timers>>

\* C17: a joinMatch with a code that has no live match yields the joinError
\* 'Match not found', a joinMatch on a match whose second slot is taken
\* yields 'Match is full'; the error goes to the requester only, no match
\* changes and the request attaches the requester to nothing.
C17_JoinErrors ==
    [][\A s \in Sockets, c \in JoinCodes :
          (JoinMatch(s, c) \/ JoinMatchG(s, c)) =>
             /\ c \notin matches => JoinRefused(s, "Match not found")
             /\ (c \in matches /\ match.player2 # "null")
                   => JoinRefused(s, "Match is full")]_vars

\* a third request on a full match has just been refused
C17_Witness ==
    /\ emitted = <<Note("guest", "joinError", <<"Match is full">>)>>
    /\ match.player1 = "host" /\ match.player2 = "guest"
    /\ Code \in matches

\* C18 (as claimed): in every round of a started match of the reactive
\* server the attacker and the defender are two distinct participants.
C18_DistinctRoles ==
    (variant = "reactive" /\ match.player2 # "null")
        => match.currentAttacker # match.currentDefender

\* the match registered under code c
MatchAt(c) == IF c = Code THEN match ELSE other

\* C19 (as claimed): createMatch registers the new match under a code that
\* no live match uses, and leaves every match of the registry as it was.
C19_CreateNeverReplaces ==
    [][EmittedNext("matchCreated") =>
          \A c \in matches : /\ emitted'[1].arg[1] # c
                              /\ MatchAt(c)' = MatchAt(c)]_vars

\* the kinds of timer that a match is to hold at most one of
PhaseKinds == {"countdown", "round", "move", "gCountdown"}

\* C20 (as claimed): a match never has two timers of the same kind
\* (countdown interval, round timer, move timeout) active at once.
C20_OneTimerPerKind ==
    \A k \in PhaseKinds : KindCount(timers, k) <= 1

\* a request that is dropped: nothing is emitted, no match, timer, socket
\* or registry entry changes
SilentlyIgnored ==
    /\ emitted' = <<>>
    /\ UNCHANGED <<matches, match, other, sockets, timers, moveStat>>

\* the match that matches.get(socket.matchCode) returns for socket s
MatchOf(s) == MatchAt(sockets[s].matchCode)
NoLiveMatch(s) == sockets[s].matchCode \notin matches

\* C21: an attackMove received for a code with no live match, or while the
\* match is not playing, or from a participant who is not the current
\* attacker, is silently ignored: no match field changes, no timer is
\* started or cancelled and nothing is emitted.
C21_AttackIgnored ==
    [][\A s \in Sockets, d \in Directions :
          (/\ \/ NoLiveMatch(s)
              \/ MatchOf(s).state # "playing"
              \/ s # MatchOf(s).currentAttacker
           /\ AttackMove(s, d))
             => SilentlyIgnored]_vars

\* the state a dropped request leaves behind during the first countdown:
\* the countdown has been started by the join and has not ticked, and the
\* last handler emitted nothing
C21_Witness ==
    /\ variant = "reactive" /\ Code \in matches
    /\ match.state = "countdown" /\ match.currentRound = 1
    /\ match.currentAttacker = "host" /\ match.currentDefender = "guest"
    /\ timers = SetToBag({Timer("countdown", CountdownSeconds, "-", FALSE, IntervalDelay)})
    /\ emitted = <<>>

\* C22: a defendMove received for a code with no live match, or while the
\* match is not playing, or from a participant who is not the current
\* defender, or when no Move is pending (none sent yet, or the last one
\* already answered or timed out) is a no-op: scores, the Move slot and the
\* timers are unchanged and nothing is emitted.
C22_DefendIgnored ==
    [][\A s \in Sockets, d \in Directions :
          (/\ \/ NoLiveMatch(s)
              \/ MatchOf(s).state # "playing"
              \/ s # MatchOf(s).currentDefender
              \/ MatchOf(s).currentMove = NoMove
              \/ MatchOf(s).currentMove.responded
           /\ DefendMove(s, d))
             => SilentlyIgnored]_vars

\* the state a dropped request leaves behind when the first round has just
\* begun: no Move has been sent, the round timer has not ticked, and the
\* last handler emitted nothing
C22_Witness ==
    /\ variant = "reactive" /\ Code \in matches
    /\ match.state = "playing" /\ match.currentRound = 1
    /\ match.currentDefender = "guest" /\ match.currentMove = NoMove
    /\ timers = SetToBag({Timer("round", RoundDuration, "-", TRUE, IntervalDelay)})
    /\ emitted = <<>>

\* a request of the guessing server that is dropped: state, combination,
\* scores and round number of the match stay and nothing is emitted
DroppedG ==
    /\ emitted' = <<>>
    /\ match'.state = match.state
    /\ match'.combination = match.combination
    /\ match'.scores = match.scores
    /\ match'.currentRound = match.currentRound

\* C23 (as claimed): in the guessing server a submitCombination (of four
\* moves) received in a state other than inputting, and a submitGuess
\* received in a state other than guessing, are silently ignored.
C23_WrongStateIgnored ==
    [][/\ \A s \in Sockets, c \in Combinations :
             (/\ match.state # "inputting" /\ Len(c) = CombinationLength
              /\ SubmitCombination(s, c)) => DroppedG
       /\ \A s \in Sockets, g \in Guesses :
             (match.state # "guessing" /\ SubmitGuess(s, g)) => DroppedG]_vars

\* C24: in the guessing server a submitCombination whose length is not 4
\* is ignored -- the stored combination, the match state and all timers (and
\* every other field, socket and registry entry) are unchanged -- and is
\* reported to nobody but the requester: the setter of a live match gets
\* exactly one combinationError (a requester who is not the setter of a live
\* match is dropped before the length is looked at).
C24_BadLengthReported ==
    [][\A s \in Sockets, c \in Combinations :
          (Len(c) # CombinationLength /\ SubmitCombination(s, c)) =>
             /\ UNCHANGED <<matches, match, other, sockets, timers>>
             /\ \A i \in 1..Len(emitted') :
                    emitted'[i] = Note(s, "combinationError", <<>>)
             /\ (HasMatch(s) /\ sockets[s].playerRole = "player1")
                    => emitted' = <<Note(s, "combinationError", <<>>)>>]_vars

\* a short combination has just been refused while a combination of four
\* is stored and its countdown runs
C24_Witness ==
    /\ emitted = <<Note("host", "combinationError", <<>>)>>
    /\ match.state = "countdown" /\ match.player2 = "guest"
    /\ Len(match.combination) = CombinationLength
    /\ KindCount(timers, "gCountdown") = 1

\* C25 (as claimed): no sequence of inbound events makes a handler throw
\* (an exception out of a handler is uncaught and stops the server for
\* every match).
C25_NoHandlerThrows == serverUp

\* the server runs and no participant has disconnected
AllConnected == serverUp /\ \A s \in Sockets : sockets[s].connected
RoundActive  == Code \in matches /\ match.state \in {"playing", "guessing"}

\* C26 (as claimed): once a round is active (playing or guessing), unless a
\* participant disconnects, the server's timers end the round eventually,
\* whether or not a participant sends another event.
C26_RoundEndsByTimer ==
    (RoundActive /\ AllConnected) ~> (~RoundActive \/ ~AllConnected)

\* C27 (as claimed): in the reactive server a round start sets the state to
\* countdown, the countdown notifications 3, 2, 1, 0 follow once each, and
\* only the 0 tick makes the state playing.  Hence: a countdown notification
\* is emitted only while the match is in countdown (a count emitted once the
\* round is being played is a second one), the state becomes playing only
\* from countdown and in the step that emits count 0, and a move is
\* accepted only while playing.
C27_CountdownBeforePlaying ==
    [][(variant = "reactive" /\ Code \in matches) =>
          /\ EmittedNext("countdown") => match.state = "countdown"
          /\ (match'.state = "playing" /\ match.state # "playing") =>
                /\ match.state = "countdown"
                /\ emitted'[1] = Note("room", "countdown", <<0>>)
          /\ EmittedNext("moveSent") => match.state = "playing"]_vars

\* the state changes the reactive server is to make (creation included)
ReactiveEdges ==
    {<<"null", "waiting">>, <<"waiting", "countdown">>,
     <<"countdown", "playing">>, <<"playing", "roundEnd">>,
     <<"roundEnd", "countdown">>, <<"roundEnd", "matchEnd">>,
     <<"matchEnd", "countdown">>}

\* C28 (as claimed): in the reactive server the match state changes only
\* along waiting -> countdown (on join), countdown -> playing, playing ->
\* roundEnd, roundEnd -> countdown (next round) or roundEnd -> matchEnd
\* (last round), and matchEnd -> countdown only after a completed rematch.
C28_StateEdges ==
    [][(variant = "reactive" /\ match'.state # match.state) =>
          /\ <<match.state, match'.state>> \in ReactiveEdges
          /\ match.state = "waiting" => EmittedNext("matchStarted")
          /\ match'.state = "matchEnd"
                => match.currentRound >= match.totalRounds
          /\ match.state = "matchEnd" => ~ended']_vars

NoScores == [player1 |-> 0, player2 |-> 0]

\* The end-to-end scenario of a match between two participants, step by
\* step, with sc the scores after the one correct response of round 1:
\*  - the defender's correct response in round 1, from scores 0:0, makes
\*    the scores sc;
\*  - a roundEnd of round 1 that reports one point in all reports sc;
\*  - the step from round 1 to round 2 starts the countdown with the roles
\*    of attacker and defender swapped.
ScenarioStep(sc) ==
    (/\ variant = "reactive" /\ Code \in matches
     /\ match.player2 # "null" /\ match.player1 # match.player2) =>
       /\ (/\ EmittedNext("moveResult") /\ emitted'[1].arg[3]
           /\ match.currentRound = 1 /\ match.scores = NoScores)
             => match'.scores = sc
       /\ \A i \in 1..Len(emitted') :
             (/\ emitted'[i].event = "roundEnd"
              /\ emitted'[i].arg[1] = 1
              /\ emitted'[i].arg[2].player1 + emitted'[i].arg[2].player2 = 1)
                => emitted'[i].arg[2] = sc
       /\ (match.currentRound = 1 /\ match'.currentRound = 2) =>
             /\ match'.state = "countdown"
             /\ match'.currentAttacker = match.currentDefender
             /\ match'.currentDefender = match.currentAttacker
             /\ emitted' =
                  <<Note(match'.currentAttacker, "roundStart", <<2, "attacker">>),
                    Note(match'.currentDefender, "roundStart", <<2, "defender">>)>>

\* C29 (as claimed): after create, join and the round-1 countdown, the
\* attacker sends 'up', the defender responds 'up' within the window and
\* the round timer expires: roundEnd carries round 1 with scores
\* (player1, player2) = (1, 0), and after the delay the round-2 countdown
\* starts with the roles swapped.
C29_EndToEnd ==
    [][ScenarioStep([player1 |-> 1, player2 |-> 0])]_vars

\* C29 (amended): the same scenario; roundEnd carries round 1 with scores
\* (player1, player2) = (0, 1): the defender of round 1 is player2, the
\* participant who joined.
C29_EndToEndJoinerScores ==
    [][ScenarioStep([player1 |-> 0, player2 |-> 1])]_vars

\* round 1 has just ended with the defender's one point
C29_Witness ==
    /\ \E i \in 1..Len(emitted) :
          emitted[i] = Note("room", "roundEnd",
                            <<1, [player1 |-> 0, player2 |-> 1]>>)
    /\ match.player1 = "host" /\ match.player2 = "guest"
    /\ match.currentAttacker = "host" /\ match.currentDefender = "guest"
    /\ match.state = "roundEnd" /\ moveStat.results = 1

\* notifications of the last handler addressed to the room of code c (the
\* room of Code is written "room") or to a participant of match m alone
NotesFor(E, c, m) ==
    {i \in 1..Len(E) :
        \/ E[i].to = (IF c = Code THEN "room" ELSE c)
        \/ E[i].to # "null" /\ E[i].to \in {m.player1, m.player2}}

\* C30 (as claimed): matches are independent.  A step that belongs to one
\* match -- it creates the match, or it changes the match -- leaves every
\* other live match registered and unchanged and emits nothing to the other
\* match's room or to its participants (unless they take part in both).
C30_MatchesIndependent ==
    [][\A c \in {Code, OtherCode} :
          LET o == IF c = Code THEN OtherCode ELSE Code
              created == /\ EmittedNext("matchCreated")
                         /\ emitted'[1].arg[1] = c
              changed == c \in matches /\ MatchAt(c)' # MatchAt(c)
          IN  /\ (created /\ c \in matches) => MatchAt(c)' = MatchAt(c)
              /\ ((created \/ changed) /\ o \in matches) =>
                    /\ o \in matches' /\ MatchAt(o)' = MatchAt(o)
                    /\ \A i \in NotesFor(emitted', o, MatchAt(o)) :
                          emitted'[i].to \in {MatchAt(c)'.player1,
                                              MatchAt(c)'.player2}]_vars

\* the restart timeouts scheduled by completed rematch handshakes
Restarts(T) == KindCount(T, "rematch") + KindCount(T, "gRematch")

\* C31: while the match is in a state other than matchEnd, nothing -- in
\* particular no proposeRematch -- changes a rematch flag, emits
\* rematchProposed or rematchStarting, or schedules a restart.
C31_ProposalOutsideMatchEnd ==
    [][match.state # "matchEnd" =>
          /\ match'.rematchProposals = match.rematchProposals
          /\ ~EmittedNext("rematchProposed")
          /\ ~EmittedNext("rematchStarting")
          /\ Restarts(timers') <= Restarts(timers)]_vars

\* the state a dropped request leaves behind when round 1 has just ended:
\* the next round is scheduled and has not come closer, no flag is set
\* and the last handler emitted nothing
C31_Witness ==
    /\ variant = "reactive" /\ Code \in matches
    /\ match.state = "roundEnd" /\ match.currentRound = 1
    /\ match.rematchProposals = [player1 |-> FALSE, player2 |-> FALSE]
    /\ timers = SetToBag({Timer("nextRound", 0, "-", FALSE, NextRoundDelay)})
    /\ emitted = <<>>

\* a started match of the reactive server on its way to its matchEnd: the
\* second participant has joined, nobody has disconnected, and no rematch
\* has been proposed yet
Underway ==
    /\ variant = "reactive" /\ Code \in matches /\ AllConnected
    /\ match.player2 # "null" /\ proposers = {}

\* the timer that takes a match in state st to its next state is running
PhaseTimerRuns(st) ==
    CASE st = "countdown" -> KindCount(timers, "countdown") = 1
      [] st = "playing"   -> \E tm \in TimersOf(timers, "round") :
                                tm.tracked /\ tm.n > 0
      [] st = "roundEnd"  -> IF IsLastRound(match)
                             THEN KindCount(timers, "endMatch") = 1
                             ELSE KindCount(timers, "nextRound") = 1
      [] OTHER            -> TRUE

\* C32: in the reactive server a started match, while nobody disconnects,
\* reaches matchEnd after exactly totalRounds roundEnd notifications, one
\* per round 1..totalRounds in order, whatever moves and responses arrive:
\*  - in every state before matchEnd the timer that leads on is running,
\*    so the next phase comes when its delay has passed;
\*  - roundEnd is emitted only in the step that ends the round being
\*    played, and it carries that round's number;
\*  - a round is played once: playing is entered from countdown only, and
\*    countdown from the join or from the previous round's roundEnd, where
\*    the round number goes up by one; nothing else changes the number;
\*  - matchEnd is emitted only after the roundEnd of round totalRounds;
\*  - and matchEnd is reached, unless somebody disconnects.
C32_MatchEndAfterAllRounds ==
    /\ Underway ~> (match.state = "matchEnd" \/ ~Underway)
    /\ [](Underway => PhaseTimerRuns(match.state))
    /\ [][Underway =>
            /\ \A i \in 1..Len(emitted') :
                  emitted'[i].event = "roundEnd" =>
                     /\ match.state = "playing" /\ match'.state = "roundEnd"
                     /\ emitted'[i].arg[1] = match.currentRound
                     /\ match.currentRound \in 1..match.totalRounds
            /\ (match'.state = "playing" /\ match.state # "playing")
                  => match.state = "countdown"
            /\ (match'.state = "countdown" /\ match.state # "countdown")
                  => \/ match.state = "waiting" /\ match'.currentRound = 1
                     \/ /\ match.state = "roundEnd"
                        /\ match'.currentRound = match.currentRound + 1
            /\ match'.currentRound # match.currentRound
                  => match'.state = "countdown"
            /\ EmittedNext("matchEnd")
                  => /\ match.state = "roundEnd"
                     /\ match.currentRound = match.totalRounds]_vars

\* the match has just ended after its four rounds, with points scored
C32_Witness ==
    /\ Underway /\ Emitted("matchEnd")
    /\ match.state = "matchEnd" /\ match.currentRound = ReactiveRounds
    /\ match.scores.player1 + match.scores.player2 > 0

\* the roles of a round by its number: player1 attacks in odd rounds
RolesByRound(m) ==
    IF m.currentRound % 2 = 1
    THEN <<m.player1, m.player2>> ELSE <<m.player2, m.player1>>

Roles(m) == <<m.currentAttacker, m.currentDefender>>

\* C33 (as claimed): in the reactive server, from a round's countdown to
\* its roundEnd, player1 is the attacker and player2 the defender if the
\* round number is odd, the other way round if it is even, and the roles
\* do not change in between.
C33_RolesByRound ==
    /\ [] ((/\ variant = "reactive" /\ Code \in matches
            /\ match.state \in {"countdown", "playing", "roundEnd"})
              => Roles(match) = RolesByRound(match))
    /\ [][(/\ variant = "reactive" /\ Code \in matches
            /\ match.state \in {"countdown", "playing", "roundEnd"}
            /\ match'.state \in {"countdown", "playing", "roundEnd"}
            /\ match'.currentRound = match.currentRound)
              => Roles(match') = Roles(match)]_vars

\* C34 (as claimed): in the reactive server a Move is in flight only while
\* the match is playing: in states waiting, countdown, roundEnd and matchEnd
\* the match's current Move is null.
C34_MoveOnlyWhilePlaying ==
    (variant = "reactive" /\ match.state \in {"waiting", "countdown", "roundEnd", "matchEnd"})
        => match.currentMove = NoMove

\* C35 (as claimed): whenever the match is not in matchEnd, both rematch
\* flags are false, so that a proposal made for an earlier finished match
\* does not count toward a later handshake.
C35_NoStaleProposal ==
    match.state # "matchEnd"
        => match.rematchProposals = [player1 |-> FALSE, player2 |-> FALSE]

\* C36 (as claimed): in the guessing variant player2's score never exceeds
\* 4 times the number of rounds scored so far, which is at most the current
\* round number (hence at most 4 * totalRounds = 12 per match instance).
C36_GuesserScoreBound ==
    (variant = "guessing" /\ Code \in matches)
        => match.scores.player2 <= CombinationLength * match.currentRound

\* C37: in the guessing variant player1's score is 0 in every reachable
\* state, and every matchEnd notification reports the winner "player2" or
\* "tie", never "player1".
C37_SetterNeverScores ==
    variant = "guessing" =>
        /\ match.scores.player1 = 0
        /\ \A i \in 1..Len(emitted) :
              emitted[i].event = "matchEnd"
                  => /\ emitted[i].arg[1].player1 = 0
                     /\ emitted[i].arg[2] \in {"player2", "tie"}

\* the last round has been guessed with a correct move: matchEnd names
\* player2 as the winner
C37_Witness ==
    /\ variant = "guessing" /\ match.state = "matchEnd"
    /\ \E i \in 1..Len(emitted) :
          /\ emitted[i].event = "matchEnd"
          /\ emitted[i].arg[1].player2 > 0
          /\ emitted[i].arg[2] = "player2"

\* C38: the defender's page sends at most one defendMove per incomingMove it
\* receives: a defendMove is sent only while a move is expected and not yet
\* answered, so after a response no further defendMove leaves the page until
\* the next incomingMove arrives, and none leaves it while no move is
\* expected.
C38_OneResponsePerIncomingMove ==
    /\ [](client.owed >= 0)
    /\ [][(\E i \in 1..Len(client'.emitted) :
               client'.emitted[i].event = "defendMove")
            => /\ Len(client'.emitted) = 1
               /\ client.currentExpectedMove # "null"
               /\ ~client.hasRespondedToMove
               /\ client.owed = 1
               /\ client'.hasRespondedToMove]_vars

\* the page has answered the expected move and the move is still shown as
\* expected: further faces are reported while the answer is locked in
C38_Witness ==
    /\ client.isTracking /\ client.currentExpectedMove # "null"
    /\ client.hasRespondedToMove /\ client.owed = 0
    /\ client.emitted = <<>>

====
